---- MODULE Spec2Model ----
(***************************************************************************)
(* Snapshot ensemble (torchensemble/snapshot_ensemble.py).                 *)
(*                                                                         *)
(* One ensemble object (classifier or regressor) and the fit calls made on *)
(* it.  A fit call is cut at its loop boundaries: the set-up up to the     *)
(* first batch, one batch of the inner loop, the code after the inner loop *)
(* (snapshot, validation, best tracking) and the code after the outer loop.*)
(*                                                                         *)
(* Numbers: learning rates and scores are integers.  The multiplier of the *)
(* scheduler is a fixed-point number with Unit standing for 1.0, and the   *)
(* cosine is computed with Bhaskara's rational approximation, which is     *)
(* exact at 0, pi/2 and pi.  Model parameters are opaque in the source;    *)
(* the parameters of the live estimator are the number of optimizer steps  *)
(* that produced them.                                                     *)
(***************************************************************************)
EXTENDS Integers, Sequences, FiniteSets, TLC

VARIABLES
    mode,            \* "clf" (SnapshotEnsembleClassifier) or "reg" (SnapshotEnsembleRegressor)
    n_estimators,    \* self.n_estimators
    estimators_,     \* self.estimators_: sequence of snapshots (parameter values)
    storage,         \* what io.save last wrote: <<>> or <<the saved estimators_>>
    pc,              \* "idle", "training", "done", "error" (ValueError), "aborted" (propagated error)
    lr_clip, epochs, log_interval, test_loader, save_model, n_batches,  \* arguments of fit
    best,            \* best_acc / best_loss
    counter, total_iters, n_iters_per_estimator,
    epoch, batch_idx,
    params,          \* parameters of the live estimator
    lr,              \* optimizer.param_groups[i]["lr"], one entry per group
    last_epoch,      \* the scheduler's iteration index
    T_M,             \* cycle length captured by lr_lambda
    fits,            \* number of fit calls made on the object
    ens0,            \* history: estimators_ when the current call began
    opt_steps,       \* history: optimizer steps taken by the current call
    snapLog,         \* history: <<epoch end (1-based), counter>> of every snapshot of the call
    scores,          \* history: validation scores observed by the call, in order
    saveAt,          \* history: indices into scores at which io.save ran
    saves,           \* history: number of io.save calls of the current call
    valLog,          \* history: <<epoch end, ensemble scored>> of every validation of the call
    lr0,             \* history: the rates before the last _clip_lr
    lr_used,         \* history: the rates in effect at the last optimizer.step()
    clips,           \* history: number of _clip_lr calls
    voting_strategy, \* self.voting_strategy (classifier)
    pred             \* outcome of the last forward call on the ensemble

vars == <<mode, n_estimators, estimators_, storage, pc, lr_clip, epochs,
          log_interval, test_loader, save_model, n_batches, best, counter,
          total_iters, n_iters_per_estimator, epoch, batch_idx, params, lr,
          last_epoch, T_M, fits, ens0, opt_steps, snapLog, scores, saveAt,
          saves, valLog, lr0, lr_used, clips, voting_strategy, pred>>

predVars == <<voting_strategy, pred>>

(***************************************************************************)
(* Bounds and inputs.                                                      *)
(***************************************************************************)
MaxEstimators == 2
MaxEpochs == 4
MaxBatches == 2
MaxFits == 1
MaxRefits == 2
MaxScore == 1
Unit == 1000
BaseLR == 100
ClipLow == 20
ClipHigh == 80
MaxIters == 6
MaxRate == 4
MaxMembers == 3

Inf == 1000000

NoneClip == [given |-> FALSE, v |-> <<>>]

ClipOf(s) == [given |-> TRUE, v |-> s]

ClipSeqs ==
    { <<>>, <<ClipLow>>, <<ClipLow, ClipHigh>>, <<ClipHigh, ClipLow>>,
      <<ClipLow, ClipLow>>, <<ClipLow, ClipHigh, ClipHigh>> }

LrClipInputs == {NoneClip} \cup { ClipOf(s) : s \in ClipSeqs }

EpochsInputs == (-1) .. MaxEpochs

LogIntervalInputs == {0, 1}

ScoreInputs == 0 .. MaxScore

(***************************************************************************)
(* _BaseSnapshotEnsemble helpers.                                          *)
(***************************************************************************)

\* Python truth value of lr_clip: None and the empty sequence are false.
Truthy(c) == c.given /\ Len(c.v) > 0

\* _validate_parameters without the check that epochs is a multiple of
\* n_estimators.
ValidateNoMultipleCheck(c, e, li, n) ==
    \/ Truthy(c) /\ Len(c.v) # 2
    \/ Truthy(c) /\ Len(c.v) = 2 /\ ~(c.v[1] < c.v[2])
    \/ ~(e > 0)
    \/ ~(li > 0)

\* TRUE iff _validate_parameters raises ValueError.
_validate_parameters(c, e, li, n) ==
    \/ Truthy(c) /\ Len(c.v) # 2
    \/ Truthy(c) /\ Len(c.v) = 2 /\ ~(c.v[1] < c.v[2])
    \/ ~(e > 0)
    \/ ~(li > 0)
    \/ ~(e % n = 0)

\* The clamp without its upper bound.
ClipRateLowerOnly(r, c) == IF r < c.v[1] THEN c.v[1] ELSE r

\* _clip_lr on one parameter group.
ClipRate(r, c) ==
    LET r1 == IF r < c.v[1] THEN c.v[1] ELSE r
    IN  IF r1 > c.v[2] THEN c.v[2] ELSE r1

\* _clip_lr that leaves every rate alone.
ClipLrNever(rates, c) == rates

\* _clip_lr on the rates of all parameter groups.
_clip_lr(rates, c) ==
    IF ~Truthy(c) THEN rates
    ELSE [g \in DOMAIN rates |-> ClipRate(rates[g], c)]

\* The cycle length rounded by "floor plus one".
CycleLengthFloorPlusOne(n_iters, n) == (n_iters \div n) + 1

\* T_M = math.ceil(n_iters / self.n_estimators)
CycleLength(n_iters, n) == (n_iters + n - 1) \div n

\* cos(pi * k / T) * Unit for 0 <= k <= T (Bhaskara I).
CosPi(k, T) ==
    IF 2 * k <= T
    THEN (Unit * (T * T - 4 * k * k)) \div (T * T + k * k)
    ELSE -((Unit * (T * T - 4 * (T - k) * (T - k))) \div (T * T + (T - k) * (T - k)))

\* lr_lambda(iteration) = 0.5 * (cos(pi * (iteration % T_M) / T_M) + 1)
lr_lambda(iteration, T) == (CosPi(iteration % T, T) + Unit) \div 2

\* LambdaLR: every group's rate is its base rate times lr_lambda(last_epoch).
SchedulerRates(bases, iteration, T) ==
    [g \in DOMAIN bases |-> (bases[g] * lr_lambda(iteration, T)) \div Unit]

\* The budget computed from the epochs alone.
NItersPerEstimatorEpochsOnly(e, nb, n) == e \div n

\* n_iters_per_estimator = epochs * len(train_loader) // self.n_estimators
NItersPerEstimator(e, nb, n) == (e * nb) \div n

\* A snapshot at every epoch end.
SnapshotDueAlways(cnt, per) == TRUE

\* counter % n_iters_per_estimator == 0
SnapshotDue(cnt, per) == cnt % per = 0

\* A validation at every epoch end.
ValidationDueEveryEpoch(tl, due) == tl

\* if test_loader and counter % n_iters_per_estimator == 0
ValidationDue(tl, due) == tl /\ due

\* Every member is the one shared instance, loaded with the live parameters.
AppendSnapshotShared(ens, p) == [i \in 1 .. (Len(ens) + 1) |-> p]

\* snapshot = self._make_estimator(); snapshot.load_state_dict(...);
\* self.estimators_.append(snapshot): a new member holding a copy of p.
AppendSnapshot(ens, p) == Append(ens, p)

\* The inner loop leaving out the last batch.
MoreBatchesSkipLast(idx, nb) == idx < nb - 1

\* for batch_idx, elem in enumerate(train_loader): a batch is left.
MoreBatches(idx, nb) == idx < nb

\* The comparison that also takes a tie for an improvement.
ImprovesOrTies(m, score, b) == IF m = "clf" THEN score >= b ELSE score <= b

\* acc > best_acc (classifier), val_loss < best_loss (regressor)
Improves(m, score, b) == IF m = "clf" THEN score > b ELSE score < b

\* best_acc = 0.0 (classifier), best_loss = float("inf") (regressor)
InitialBest(m) == IF m = "clf" THEN 0 ELSE Inf

\* The final save taken whatever save_model says.
SaveAtEndAlways(sm, tl) == ~tl

\* The final save taken under the wrong condition.
SaveAtEndInverted(sm, tl) == sm /\ tl

\* if save_model and not test_loader
SaveAtEnd(sm, tl) == sm /\ ~tl

(***************************************************************************)
(* Prediction: forward of the ensemble on one fixed input.                 *)
(***************************************************************************)
NoResult == [status |-> "none", value |-> <<>>]

Raised == [status |-> "error", value |-> <<>>]

Returns(v) == [status |-> "ok", value |-> v]

RECURSIVE SumAt(_, _, _)
\* Sum of the j-th components of the first k outputs.
SumAt(outs, j, k) == IF k = 0 THEN 0 ELSE outs[k][j] + SumAt(outs, j, k - 1)

\* op.average: the elementwise mean of the outputs; an error when there is
\* no output.
average(outs) ==
    IF outs = <<>> THEN Raised
    ELSE Returns([j \in DOMAIN outs[1] |-> SumAt(outs, j, Len(outs)) \div Len(outs)])

\* The class a member votes for: its most probable class, the lowest index
\* on a tie.
Vote(out) ==
    CHOOSE j \in DOMAIN out :
        /\ \A k \in DOMAIN out : out[j] >= out[k]
        /\ \A k \in 1 .. (j - 1) : out[k] < out[j]

\* op.majority_vote: the distribution of the members' votes; an error when
\* there is no output.
majority_vote(outs) ==
    IF outs = <<>> THEN Raised
    ELSE Returns([j \in DOMAIN outs[1] |->
            (Unit * Cardinality({ i \in DOMAIN outs : Vote(outs[i]) = j })) \div Len(outs)])

\* estimator(*x) for the regressor: a member predicts one number.
RegressorOutput(p) == <<p>>

\* F.softmax(estimator(*x), dim=1): a distribution over two classes.
SoftmaxOutput(p) == <<Unit - ((Unit * p) \div MaxRate), (Unit * p) \div MaxRate>>

\* forward that answers an empty ensemble with an empty output.
forwardEmptyDefault(ens, m, vs) ==
    IF ens = <<>> THEN Returns(<<>>)
    ELSE IF m = "reg"
    THEN average([i \in DOMAIN ens |-> RegressorOutput(ens[i])])
    ELSE IF vs = "soft"
    THEN average([i \in DOMAIN ens |-> SoftmaxOutput(ens[i])])
    ELSE majority_vote([i \in DOMAIN ens |-> SoftmaxOutput(ens[i])])

\* SnapshotEnsembleRegressor.forward (through _forward) and
\* SnapshotEnsembleClassifier.forward.
forward(ens, m, vs) ==
    IF m = "reg"
    THEN average([i \in DOMAIN ens |-> RegressorOutput(ens[i])])
    ELSE IF vs = "soft"
    THEN average([i \in DOMAIN ens |-> SoftmaxOutput(ens[i])])
    ELSE majority_vote([i \in DOMAIN ens |-> SoftmaxOutput(ens[i])])

(***************************************************************************)
(* The object after construction.                                          *)
(***************************************************************************)
Init ==
    /\ mode \in {"clf", "reg"}
    /\ n_estimators \in 1 .. MaxEstimators
    /\ estimators_ = <<>>
    /\ storage = <<>>
    /\ pc = "idle"
    /\ lr_clip = NoneClip
    /\ epochs = 0
    /\ log_interval = 0
    /\ test_loader = FALSE
    /\ save_model = FALSE
    /\ n_batches = 0
    /\ best = 0
    /\ counter = 0
    /\ total_iters = 0
    /\ n_iters_per_estimator = 0
    /\ epoch = 0
    /\ batch_idx = 0
    /\ params = 0
    /\ lr = <<>>
    /\ last_epoch = 0
    /\ T_M = 0
    /\ fits = 0
    /\ ens0 = <<>>
    /\ opt_steps = 0
    /\ snapLog = <<>>
    /\ scores = <<>>
    /\ saveAt = {}
    /\ saves = 0
    /\ valLog = <<>>
    /\ lr0 = <<>>
    /\ lr_used = <<>>
    /\ clips = 0
    /\ voting_strategy = "soft"
    /\ pred = NoResult

\* No fit call is running and the object is usable.  A call that ended in a
\* ValueError changed nothing, so calls are explored from the other states.
Returned == pc \in {"idle", "done", "aborted"}

\* fit, from its first line to the start of the training loop.
FitStart(c, e, li, tl, sm, nb) ==
    /\ Returned
    /\ fits' = fits + 1
    /\ lr_clip' = c
    /\ epochs' = e
    /\ log_interval' = li
    /\ test_loader' = tl
    /\ save_model' = sm
    /\ n_batches' = nb
    /\ ens0' = estimators_
    /\ opt_steps' = 0
    /\ snapLog' = <<>>
    /\ scores' = <<>>
    /\ saveAt' = {}
    /\ saves' = 0
    /\ valLog' = <<>>
    /\ lr0' = <<>>
    /\ lr_used' = <<>>
    /\ clips' = 0
    /\ epoch' = 0
    /\ batch_idx' = 0
    /\ counter' = 0
    /\ total_iters' = 0
    /\ IF _validate_parameters(c, e, li, n_estimators)
       THEN /\ pc' = "error"
            /\ best' = 0
            /\ n_iters_per_estimator' = 0
            /\ params' = 0
            /\ lr' = <<>>
            /\ last_epoch' = 0
            /\ T_M' = 0
       ELSE /\ pc' = "training"
            /\ best' = InitialBest(mode)
            /\ n_iters_per_estimator' = NItersPerEstimator(e, nb, n_estimators)
            /\ params' = 0
            /\ T_M' = CycleLength(e * nb, n_estimators)
            /\ last_epoch' = 0
            /\ lr' = SchedulerRates(<<BaseLR>>, 0, CycleLength(e * nb, n_estimators))
    /\ UNCHANGED <<mode, n_estimators, estimators_, storage>>
    /\ UNCHANGED predVars

\* _validate_parameters reads lr_clip, epochs and log_interval only: the calls
\* it rejects are explored with one choice of the other arguments.
FitWithin(limit) ==
    /\ Returned
    /\ fits < limit
    /\ \E c \in LrClipInputs, e \in EpochsInputs, li \in LogIntervalInputs,
          tl \in BOOLEAN, sm \in BOOLEAN, nb \in 1 .. MaxBatches :
        /\ _validate_parameters(c, e, li, n_estimators) => (~tl /\ sm /\ nb = 1)
        /\ FitStart(c, e, li, tl, sm, nb)

\* A fit call on the object, within the number of calls explored.
Fit == FitWithin(MaxFits)

\* A fit call on an object that may have been fitted before.
Refit == FitWithin(MaxRefits)

\* One batch of the inner loop: clip, optimizer step, scheduler step, counters.
TrainBatch ==
    /\ pc = "training"
    /\ epoch < epochs
    /\ MoreBatches(batch_idx, n_batches)
    /\ lr0' = lr
    /\ lr_used' = _clip_lr(lr, lr_clip)
    /\ clips' = clips + 1
    /\ params' = params + 1
    /\ opt_steps' = opt_steps + 1
    /\ last_epoch' = last_epoch + 1
    /\ lr' = SchedulerRates(<<BaseLR>>, last_epoch + 1, T_M)
    /\ counter' = counter + 1
    /\ total_iters' = total_iters + 1
    /\ batch_idx' = batch_idx + 1
    /\ UNCHANGED <<mode, n_estimators, estimators_, storage, pc, lr_clip,
                   epochs, log_interval, test_loader, save_model, n_batches,
                   best, n_iters_per_estimator, epoch, T_M, fits, ens0,
                   snapLog, scores, saveAt, saves, valLog>>
    /\ UNCHANGED predVars

\* The forward pass, the backward pass or optimizer.step() raises: nothing in
\* fit catches it.
BatchFail ==
    /\ pc = "training"
    /\ epoch < epochs
    /\ MoreBatches(batch_idx, n_batches)
    /\ pc' = "aborted"
    /\ UNCHANGED <<mode, n_estimators, estimators_, storage, lr_clip, epochs,
                   log_interval, test_loader, save_model, n_batches, best,
                   counter, total_iters, n_iters_per_estimator, epoch,
                   batch_idx, params, lr, last_epoch, T_M, fits, ens0,
                   opt_steps, snapLog, scores, saveAt, saves, valLog, lr0,
                   lr_used, clips>>
    /\ UNCHANGED predVars

\* The code after the inner loop: snapshot, validation, best tracking.
EpochEndWith(score) ==
    /\ pc = "training"
    /\ epoch < epochs
    /\ ~MoreBatches(batch_idx, n_batches)
    /\ LET due == SnapshotDue(counter, n_iters_per_estimator)
           ens == IF due THEN AppendSnapshot(estimators_, params) ELSE estimators_
           validated == ValidationDue(test_loader, due)
           better == validated /\ Improves(mode, score, best)
           saved == better /\ save_model
       IN  /\ estimators_' = ens
           /\ snapLog' = IF due THEN Append(snapLog, <<epoch + 1, counter>>)
                                ELSE snapLog
           /\ scores' = IF validated THEN Append(scores, score) ELSE scores
           /\ valLog' = IF validated THEN Append(valLog, <<epoch + 1, ens>>)
                                      ELSE valLog
           /\ best' = IF better THEN score ELSE best
           /\ storage' = IF saved THEN <<ens>> ELSE storage
           /\ saves' = IF saved THEN saves + 1 ELSE saves
           /\ saveAt' = IF saved THEN saveAt \cup {Len(scores) + 1} ELSE saveAt
    /\ epoch' = epoch + 1
    /\ batch_idx' = 0
    /\ UNCHANGED <<mode, n_estimators, pc, lr_clip, epochs, log_interval,
                   test_loader, save_model, n_batches, counter, total_iters,
                   n_iters_per_estimator, params, lr, last_epoch, T_M, fits,
                   ens0, opt_steps, lr0, lr_used, clips>>
    /\ UNCHANGED predVars

EpochEnd ==
    /\ pc = "training"
    /\ epoch < epochs
    /\ ~MoreBatches(batch_idx, n_batches)
    /\ \E score \in ScoreInputs :
        /\ \/ ValidationDue(test_loader, SnapshotDue(counter, n_iters_per_estimator))
           \/ score = 0
        /\ EpochEndWith(score)

\* The code after the outer loop.
FitReturn ==
    /\ pc = "training"
    /\ epoch >= epochs
    /\ pc' = "done"
    /\ storage' = IF SaveAtEnd(save_model, test_loader) THEN <<estimators_>> ELSE storage
    /\ saves' = IF SaveAtEnd(save_model, test_loader) THEN saves + 1 ELSE saves
    /\ UNCHANGED <<mode, n_estimators, estimators_, lr_clip, epochs,
                   log_interval, test_loader, save_model, n_batches, best,
                   counter, total_iters, n_iters_per_estimator, epoch,
                   batch_idx, params, lr, last_epoch, T_M, fits, ens0,
                   opt_steps, snapLog, scores, saveAt, valLog, lr0, lr_used,
                   clips>>
    /\ UNCHANGED predVars

Next == Fit \/ TrainBatch \/ BatchFail \/ EpochEnd \/ FitReturn

Spec == Init /\ [][Next]_vars

\* Fit calls in which no collaborator fails: every step of a running call is
\* taken, since the call is one sequential computation.
NextNoFailure == Fit \/ TrainBatch \/ EpochEnd \/ FitReturn

\* Repeated fit calls on one object.
NextRefit == Refit \/ TrainBatch \/ BatchFail \/ EpochEnd \/ FitReturn

SpecRefit == Init /\ [][NextRefit]_vars

SpecNoFailure ==
    /\ Init
    /\ [][NextNoFailure]_vars
    /\ WF_vars(TrainBatch)
    /\ WF_vars(EpochEnd)
    /\ WF_vars(FitReturn)

(***************************************************************************)
(* The scheduler on its own: _set_scheduler for any number of iterations   *)
(* and any number of estimators, then scheduler.step() over two cycles.    *)
(***************************************************************************)
NoCall ==
    /\ mode = "clf"
    /\ estimators_ = <<>>
    /\ storage = <<>>
    /\ log_interval = 1
    /\ test_loader = FALSE
    /\ save_model = FALSE
    /\ best = 0
    /\ counter = 0
    /\ total_iters = 0
    /\ n_iters_per_estimator = 0
    /\ epoch = 0
    /\ batch_idx = 0
    /\ params = 0
    /\ fits = 0
    /\ ens0 = <<>>
    /\ opt_steps = 0
    /\ snapLog = <<>>
    /\ scores = <<>>
    /\ saveAt = {}
    /\ saves = 0
    /\ valLog = <<>>
    /\ lr_used = <<>>
    /\ voting_strategy = "soft"
    /\ pred = NoResult

noCallVars ==
    <<mode, estimators_, storage, log_interval, test_loader, save_model, best,
      counter, total_iters, n_iters_per_estimator, epoch, batch_idx, params,
      fits, ens0, opt_steps, snapLog, scores, saveAt, saves, valLog,
      lr_used>>

SchedInit ==
    /\ NoCall
    /\ pc = "scheduler"
    /\ n_estimators \in 1 .. MaxEstimators + 1
    /\ epochs \in 1 .. MaxIters
    /\ n_batches \in 1 .. MaxBatches
    /\ lr_clip = NoneClip
    /\ T_M = CycleLength(epochs * n_batches, n_estimators)
    /\ last_epoch = 0
    /\ lr = SchedulerRates(<<BaseLR>>, 0, CycleLength(epochs * n_batches, n_estimators))
    /\ lr0 = <<>>
    /\ clips = 0

\* scheduler.step()
SchedulerStep ==
    /\ pc = "scheduler"
    /\ last_epoch < 2 * T_M + 1
    /\ last_epoch' = last_epoch + 1
    /\ lr' = SchedulerRates(<<BaseLR>>, last_epoch + 1, T_M)
    /\ UNCHANGED noCallVars
    /\ UNCHANGED <<pc, n_estimators, epochs, n_batches, lr_clip, T_M, lr0, clips>>
    /\ UNCHANGED predVars

SchedNext == SchedulerStep

SpecSched == SchedInit /\ [][SchedNext]_vars

(***************************************************************************)
(* The clamp on its own: _clip_lr on any rates of one or two parameter     *)
(* groups, with no bounds or with any bounds low < high, applied twice.    *)
(***************************************************************************)
RateInputs == 0 .. MaxRate

BoundsInputs ==
    {NoneClip, ClipOf(<<>>)}
        \cup { ClipOf(<<q[1], q[2]>>) :
                    q \in { x \in RateInputs \X RateInputs : x[1] < x[2] } }

ClipInit ==
    /\ NoCall
    /\ pc = "clip"
    /\ n_estimators = 1
    /\ epochs = 1
    /\ n_batches = 1
    /\ T_M = 1
    /\ last_epoch = 0
    /\ lr_clip \in BoundsInputs
    /\ lr \in { <<a>> : a \in RateInputs } \cup { <<a, b>> : a \in RateInputs, b \in RateInputs }
    /\ lr0 = lr
    /\ clips = 0

\* optimizer = self._clip_lr(optimizer, lr_clip)
ClipLr ==
    /\ pc = "clip"
    /\ clips < 2
    /\ lr0' = lr
    /\ lr' = _clip_lr(lr, lr_clip)
    /\ clips' = clips + 1
    /\ UNCHANGED noCallVars
    /\ UNCHANGED <<pc, n_estimators, epochs, n_batches, lr_clip, T_M, last_epoch>>
    /\ UNCHANGED predVars

ClipNext == ClipLr

SpecClip == ClipInit /\ [][ClipNext]_vars

(***************************************************************************)
(* Prediction on its own: an ensemble of zero to MaxMembers members, of    *)
(* either kind and either voting strategy, asked for a prediction.         *)
(***************************************************************************)
RECURSIVE Ensembles(_)
\* All ensembles of at most k members.
Ensembles(k) ==
    IF k = 0 THEN {<<>>}
    ELSE Ensembles(k - 1)
            \cup { Append(e, p) : e \in { x \in Ensembles(k - 1) : Len(x) = k - 1 },
                                  p \in 0 .. MaxRate }

PredictInit ==
    /\ pc = "predict"
    /\ mode \in {"clf", "reg"}
    /\ voting_strategy \in {"soft", "hard"}
    /\ mode = "reg" => voting_strategy = "soft"
    /\ estimators_ \in Ensembles(MaxMembers)
    /\ pred = NoResult
    /\ n_estimators = MaxMembers
    /\ storage = <<>>
    /\ lr_clip = NoneClip
    /\ epochs = 1
    /\ log_interval = 1
    /\ test_loader = FALSE
    /\ save_model = FALSE
    /\ n_batches = 1
    /\ best = 0
    /\ counter = 0
    /\ total_iters = 0
    /\ n_iters_per_estimator = 0
    /\ epoch = 0
    /\ batch_idx = 0
    /\ params = 0
    /\ lr = <<>>
    /\ last_epoch = 0
    /\ T_M = 1
    /\ fits = 0
    /\ ens0 = <<>>
    /\ opt_steps = 0
    /\ snapLog = <<>>
    /\ scores = <<>>
    /\ saveAt = {}
    /\ saves = 0
    /\ valLog = <<>>
    /\ lr0 = <<>>
    /\ lr_used = <<>>
    /\ clips = 0

\* self.forward(*x)
Predict ==
    /\ pc = "predict"
    /\ pred = NoResult
    /\ pred' = forward(estimators_, mode, voting_strategy)
    /\ UNCHANGED <<mode, n_estimators, estimators_, storage, pc, lr_clip,
                   epochs, log_interval, test_loader, save_model, n_batches,
                   best, counter, total_iters, n_iters_per_estimator, epoch,
                   batch_idx, params, lr, last_epoch, T_M, fits, ens0,
                   opt_steps, snapLog, scores, saveAt, saves, valLog, lr0,
                   lr_used, clips, voting_strategy>>

PredictNext == Predict

SpecPredict == PredictInit /\ [][PredictNext]_vars

(***************************************************************************)
(* Properties.                                                             *)
(***************************************************************************)
InCall == pc \in {"training", "done", "aborted"}

\* Epochs between two snapshots.
EpochsPerSnapshot == epochs \div n_estimators

SnapshotEpochs == { snapLog[i][1] : i \in DOMAIN snapLog }

\* C1: with epochs > 0 a multiple of n_estimators and at least one batch per
\* epoch, a fit call on an empty ensemble takes a snapshot at the end of every
\* (epochs / n_estimators)-th epoch and at no other epoch end, so a completed
\* call leaves exactly n_estimators snapshots, and the counter at the last
\* snapshot is epochs * batches_per_epoch.
C1_SnapshotTrigger ==
    (InCall /\ ens0 = <<>>) =>
        /\ SnapshotEpochs = { e \in 1 .. epoch : e % EpochsPerSnapshot = 0 }
        /\ Len(estimators_) = Len(snapLog)
        /\ Cardinality(SnapshotEpochs) = Len(snapLog)
        /\ pc = "done" =>
            /\ Len(estimators_) = n_estimators
            /\ snapLog[Len(snapLog)][2] = epochs * n_batches

C1_Witness ==
    /\ pc = "done"
    /\ ens0 = <<>>
    /\ n_estimators = 2
    /\ epochs = 4
    /\ n_batches = 2
    /\ SnapshotEpochs = {2, 4}

\* C2: the ensemble never holds more than n_estimators snapshots, also during
\* and after a second fit call on the same object.
C2_SizeBound == Len(estimators_) <= n_estimators

BadConfig(e, li, n) == e <= 0 \/ li <= 0 \/ e % n # 0

\* C3: a fit call with epochs <= 0, log_interval <= 0 or epochs not a
\* multiple of n_estimators ends in a configuration error before any batch:
\* no optimizer step, no snapshot, nothing persisted, ensemble unchanged.
C3_ConfigErrorFailsFast ==
    /\ []((pc # "idle" /\ BadConfig(epochs, log_interval, n_estimators)) =>
            /\ pc = "error"
            /\ opt_steps = 0
            /\ snapLog = <<>>
            /\ saves = 0
            /\ estimators_ = ens0)
    /\ [][(fits' = fits + 1 /\ BadConfig(epochs', log_interval', n_estimators')) =>
            /\ pc' = "error"
            /\ estimators_' = estimators_
            /\ storage' = storage]_vars

C3_Witness ==
    /\ pc = "error"
    /\ epochs = 3
    /\ n_estimators = 2
    /\ log_interval = 1
    /\ ~Truthy(lr_clip)
    /\ opt_steps = 0
    /\ estimators_ = <<>>

Malformed(c) == c.given /\ (Len(c.v) # 2 \/ c.v[1] >= c.v[2])

\* C4: every malformed lr_clip (not exactly 2 elements, whatever the length,
\* or low >= high) makes fit end in a configuration error before any
\* training step.
C4_MalformedClipRejected ==
    (pc # "idle" /\ Malformed(lr_clip)) => (pc = "error" /\ opt_steps = 0)

\* Indices of the scores that are strictly better than every earlier score.
StrictImprovements(m) ==
    { i \in DOMAIN scores :
        \A j \in 1 .. (i - 1) :
            IF m = "clf" THEN scores[i] > scores[j] ELSE scores[i] < scores[j] }

\* C5: classifier, validation enabled, save_model true: the ensemble is
\* persisted at exactly the snapshots whose accuracy is strictly greater than
\* every accuracy observed earlier in the run, the first one included.
C5_PersistAtStrictImprovement ==
    (InCall /\ mode = "clf" /\ test_loader /\ save_model) =>
        saveAt = StrictImprovements("clf")

\* C6 as stated: without a validation source a completed fit call persists
\* the ensemble exactly once, unconditionally, with the final membership.
C6_SavedOnceUnconditionally ==
    (pc = "done" /\ ~test_loader) => (saves = 1 /\ storage = <<estimators_>>)

\* C6: without a validation source nothing is persisted before the last
\* epoch has completed; a completed call with save_model true persists
\* exactly once, the ensemble with all snapshots of the run, and one with
\* save_model false persists nothing.
C6_SavedOnceWhenSaving ==
    (InCall /\ ~test_loader) =>
        /\ pc # "done" => saves = 0
        /\ (pc = "done" /\ save_model) =>
            /\ saves = 1
            /\ storage = <<estimators_>>
            /\ epoch = epochs
            /\ Len(estimators_) = Len(ens0) + n_estimators
        /\ (pc = "done" /\ ~save_model) => saves = 0

C6_Witness ==
    /\ pc = "done"
    /\ ~test_loader
    /\ save_model
    /\ saves = 1
    /\ n_estimators = 2
    /\ Len(estimators_) = 2
    /\ storage = <<estimators_>>

\* Index of the snapshot at which the best score of the run was first attained.
BestIndex(m) ==
    CHOOSE i \in DOMAIN scores :
        /\ \A j \in DOMAIN scores :
            IF m = "clf" THEN scores[i] >= scores[j] ELSE scores[i] <= scores[j]
        /\ \A j \in 1 .. (i - 1) : scores[j] # scores[i]

\* C7: after a completed fit call with a validation source and save_model
\* true a persisted ensemble exists, and it is the ensemble as it stood at the
\* snapshot where the best validation score of the run was attained.
C7_BestEnsemblePersisted ==
    (pc = "done" /\ test_loader /\ save_model) =>
        /\ storage # <<>>
        /\ storage[1] = SubSeq(estimators_, 1, Len(ens0) + BestIndex(mode))

\* C8 as stated: a failing batch leaves the ensemble as it was when the call
\* began.
C8_AbortLeavesEnsembleUnchanged == pc = "aborted" => estimators_ = ens0

\* C8: a failing batch aborts the call at once; the ensemble is then its
\* membership at the start of the call followed by the snapshots of the
\* epoch ends completed before the failure, and it is unchanged when the
\* failure comes before the first snapshot of the call.
C8_AbortKeepsCommittedSnapshots ==
    pc = "aborted" =>
        /\ opt_steps = epoch * n_batches + batch_idx
        /\ batch_idx < n_batches
        /\ SubSeq(estimators_, 1, Len(ens0)) = ens0
        /\ Len(estimators_) = Len(ens0) + (epoch \div EpochsPerSnapshot)
        /\ \A i \in DOMAIN snapLog :
            estimators_[Len(ens0) + i] = snapLog[i][2]
        /\ epoch < EpochsPerSnapshot => estimators_ = ens0

C8_Witness ==
    /\ pc = "aborted"
    /\ n_estimators = 2
    /\ Len(estimators_) = Len(ens0) + 1
    /\ epochs = 4
    /\ opt_steps = 5

\* T = ceil(I / M): the least k with k * M >= I.
CeilQuotient(I, M) == CHOOSE k \in 1 .. I : k * M >= I /\ (k - 1) * M < I

\* C9: for all I >= 1, M >= 1 and t >= 0 the multiplier at t is the
\* multiplier at t mod T with T = ceil(I / M), and it is 1.0 whenever
\* t mod T = 0; the rate the scheduler sets is the base rate times it.
C9_SchedulePeriodic ==
    pc = "scheduler" =>
        LET T == CeilQuotient(epochs * n_batches, n_estimators)
        IN  /\ lr_lambda(last_epoch, T_M) = lr_lambda(last_epoch % T, T_M)
            /\ last_epoch % T = 0 => lr_lambda(last_epoch, T_M) = Unit
            /\ lr = SchedulerRates(<<BaseLR>>, last_epoch % T, T_M)
            /\ last_epoch % T = 0 => lr = <<BaseLR>>

C9_Witness ==
    /\ pc = "scheduler"
    /\ (epochs * n_batches) % n_estimators # 0
    /\ T_M = 3
    /\ last_epoch = 2 * T_M
    /\ lr = <<BaseLR>>

HasBounds(c) == c.given /\ Len(c.v) = 2

\* C10: with bounds low < high the clamp leaves every group's rate inside
\* [low, high] and does not change a rate that was inside; a second
\* application changes nothing; with no bounds every rate is unchanged.
C10_ClampIntoRange ==
    (pc = "clip" /\ clips >= 1) =>
        /\ HasBounds(lr_clip) =>
            \A g \in DOMAIN lr :
                /\ lr_clip.v[1] <= lr[g] /\ lr[g] <= lr_clip.v[2]
                /\ (lr_clip.v[1] <= lr0[g] /\ lr0[g] <= lr_clip.v[2]) => lr[g] = lr0[g]
        /\ ~HasBounds(lr_clip) => lr = lr0
        /\ clips >= 2 => lr = lr0
        /\ DOMAIN lr = DOMAIN lr0

C10_Witness ==
    /\ pc = "clip"
    /\ clips = 2
    /\ lr_clip = ClipOf(<<1, 3>>)
    /\ lr = <<1, 3>>

C12_NoSaveWithoutSaveModel ==
    /\ []((InCall /\ ~save_model) => (saves = 0 /\ saveAt = {}))
    /\ [][(pc' \in {"training", "done", "aborted"} /\ ~save_model') =>
            storage' = storage]_vars

C12_Witness ==
    /\ pc = "done"
    /\ ~save_model
    /\ test_loader
    /\ mode = "clf"
    /\ best = 1
    /\ scores = <<0, 1>>
    /\ storage = <<>>

\* C13: at every epoch end a validation pass runs iff a validation source is
\* configured and a snapshot was appended at that epoch end, and it scores
\* the ensemble after the append: all earlier members and the new snapshot.
C13_ValidationAfterSnapshot ==
    InCall =>
        /\ Len(valLog) = Len(scores)
        /\ Len(valLog) = IF test_loader THEN Len(snapLog) ELSE 0
        /\ \A i \in DOMAIN valLog :
            /\ valLog[i][1] = snapLog[i][1]
            /\ valLog[i][2] = SubSeq(estimators_, 1, Len(ens0) + i)
            /\ valLog[i][2][Len(ens0) + i] = snapLog[i][2]

C13_Witness ==
    /\ pc = "done"
    /\ test_loader
    /\ epochs = 4
    /\ n_estimators = 2
    /\ Len(valLog) = 2
    /\ valLog[1][1] = 2
    /\ Len(valLog[2][2]) = Len(ens0) + 2

\* floor(I / M): the greatest k with k * M <= I.
FloorQuotient(I, M) == CHOOSE k \in 0 .. I : k * M <= I /\ (k + 1) * M > I

\* A snapshot of the call was taken at counter value c.
SnapshotAt(c) == \E i \in DOMAIN snapLog : snapLog[i][2] = c

\* C14: for every accepted configuration the scheduler's cycle length
\* ceil(epochs * batches / n_estimators) equals the trigger's budget
\* floor(epochs * batches / n_estimators); at an epoch end a snapshot is due
\* iff t mod T = 0; the multiplier is 1.0 exactly when t mod T = 0, which
\* after the start happens only at a snapshot, and the first optimizer step
\* after a snapshot uses multiplier 1.0.
C14_RestartAtSnapshot ==
    InCall =>
        /\ T_M = CeilQuotient(epochs * n_batches, n_estimators)
        /\ n_iters_per_estimator = FloorQuotient(epochs * n_batches, n_estimators)
        /\ T_M = n_iters_per_estimator
        /\ (pc = "training" /\ epoch < epochs /\ batch_idx = n_batches) =>
            (SnapshotDue(counter, n_iters_per_estimator) <=> last_epoch % T_M = 0)
        /\ lr_lambda(last_epoch, T_M) = Unit <=> last_epoch % T_M = 0
        /\ (last_epoch % T_M = 0 /\ last_epoch > 0) =>
            \/ pc = "training" /\ epoch < epochs /\ batch_idx = n_batches
            \/ SnapshotAt(last_epoch)
        /\ (opt_steps >= 1 /\ SnapshotAt(opt_steps - 1)) => lr0 = <<BaseLR>>
        /\ (opt_steps >= 1 /\ lr0 = <<BaseLR>>) =>
            (opt_steps = 1 \/ SnapshotAt(opt_steps - 1))

C14_Witness ==
    /\ pc = "training"
    /\ n_estimators = 2
    /\ epochs = 4
    /\ n_batches = 2
    /\ Len(snapLog) = 1
    /\ opt_steps = 5
    /\ lr0 = <<BaseLR>>

\* r clipped into [lo, hi].
Clamped(r, lo, hi) == IF r < lo THEN lo ELSE IF r > hi THEN hi ELSE r

\* C15: with lr_clip = [low, high] the rate in effect at optimizer step t
\* (0-based, the first step included) is the base rate times f(t) clipped
\* into [low, high]; it lies in [low, high], and it does not depend on what
\* was clipped at earlier steps.
C15_RateAtEveryStep ==
    (InCall /\ opt_steps >= 1 /\ HasBounds(lr_clip)) =>
        LET T == CeilQuotient(epochs * n_batches, n_estimators)
            scheduled == (BaseLR * lr_lambda(opt_steps - 1, T)) \div Unit
        IN  /\ lr_used = <<Clamped(scheduled, lr_clip.v[1], lr_clip.v[2])>>
            /\ lr_clip.v[1] <= lr_used[1] /\ lr_used[1] <= lr_clip.v[2]
            /\ lr0 = <<scheduled>>

C15_Witness ==
    /\ pc = "training"
    /\ HasBounds(lr_clip)
    /\ T_M = 4
    /\ opt_steps = 4
    /\ lr0[1] < lr_clip.v[1]
    /\ lr_used = <<lr_clip.v[1]>>

\* C16: regressor, validation enabled, save_model true: the ensemble is
\* persisted at exactly the snapshots whose loss is strictly lower than every
\* loss observed earlier in the same call; the first snapshot of the call is
\* always persisted, a loss equal to or above the running best never.
C16_PersistAtStrictlyLowerLoss ==
    (InCall /\ mode = "reg" /\ test_loader /\ save_model) =>
        /\ saveAt = StrictImprovements("reg")
        /\ scores # <<>> => 1 \in saveAt
        /\ saves = Cardinality(saveAt)
        /\ \A i \in DOMAIN scores :
            (\E j \in 1 .. (i - 1) : scores[j] <= scores[i]) => i \notin saveAt

C16_Witness ==
    /\ pc = "done"
    /\ mode = "reg"
    /\ test_loader
    /\ save_model
    /\ scores = <<1, 1>>
    /\ saveAt = {1}

\* C17: no step changes a member of the ensemble once it is appended: an
\* optimizer step, a later append and a validation pass leave every existing
\* member as it is, and the ensemble changes only by one append at its end.
C17_SnapshotsImmutable ==
    [][/\ Len(estimators_') \in {Len(estimators_), Len(estimators_) + 1}
       /\ SubSeq(estimators_', 1, Len(estimators_)) = estimators_
       /\ params' # params => estimators_' = estimators_]_vars

C17_Witness ==
    /\ pc = "training"
    /\ Len(estimators_) = Len(ens0) + 1
    /\ params > estimators_[Len(estimators_)]
    /\ valLog # <<>>

\* C18: a fit call with an accepted configuration and no collaborator
\* failure eventually reaches Done, after exactly epochs * batches optimizer
\* steps and as many scheduler steps; during the run the snapshot counter,
\* the total-iteration counter and the scheduler's index are equal and grow
\* by one per processed batch.
C18_RunCompletes ==
    /\ (pc = "training") ~> (pc = "done")
    /\ []((pc \in {"training", "done"}) =>
            /\ counter = total_iters
            /\ counter = last_epoch
            /\ counter = opt_steps
            /\ counter = epoch * n_batches + batch_idx)
    /\ [](pc = "done" =>
            /\ opt_steps = epochs * n_batches
            /\ last_epoch = epochs * n_batches)
    /\ [][(pc = "training" /\ pc' = "training") =>
            counter' = counter + (IF batch_idx' = batch_idx + 1 THEN 1 ELSE 0)]_vars

C18_Witness ==
    /\ pc = "done"
    /\ epochs = 4
    /\ n_batches = 2
    /\ opt_steps = 8
    /\ last_epoch = 8
    /\ total_iters = 8

TypeOK ==
    /\ pc \in {"idle", "training", "done", "error", "aborted", "scheduler", "clip", "predict"}
    /\ fits \in 0 .. MaxRefits
====
